---- MODULE Spec2Model ----
(***************************************************************************)
(* Fraud Risk Intelligence API (src/backend/main.py).                      *)
(*                                                                         *)
(* State: the loaded classifier `model`, the MongoDB `collection`, the     *)
(* background task auto_generate_transactions, HTTP clients calling        *)
(* score_transaction / get_transactions / home, and one dashboard_summary  *)
(* request whose seven count queries are separate reads of the collection. *)
(*                                                                         *)
(* The sync handlers run in the server's thread pool and the background    *)
(* task on the event loop, so a write of one can fall between two reads of *)
(* another. A handler that touches the collection once is one action; the  *)
(* dashboard, which reads it seven times, is seven.                        *)
(*                                                                         *)
(* origin, before and loopFailed are history variables: who inserted each  *)
(* record and the probability the classifier returned for it, the size of  *)
(* the collection when a client submitted, whether an iteration raised.    *)
(*                                                                         *)
(* Probabilities are integers in units of 1/100000, so that                *)
(* round(float(probability), 4) is a real conversion to units of 1/10000.  *)
(* Percentages are integers in units of 1/100 of a percent.                *)
(***************************************************************************)
EXTENDS Integers, Sequences, FiniteSets, TLC

\* ----------------------------------------------------------------- bounds
MaxStore == 2

\* ------------------------------------------------------ program constants
HighThreshold == 75000
MediumThreshold == 40000
TopN == 3
SleepSeconds == 5

None == "None"

\* class TransactionInput: the 30 fields, in declaration order
FeatureNames ==
  << "Time", "V1", "V2", "V3", "V4", "V5", "V6", "V7", "V8", "V9", "V10",
     "V11", "V12", "V13", "V14", "V15", "V16", "V17", "V18", "V19", "V20",
     "V21", "V22", "V23", "V24", "V25", "V26", "V27", "V28", "Amount" >>

FieldSet == { FeatureNames[i] : i \in 1..Len(FeatureNames) }

\* generate_random_transaction(): Time in [0,100000], Vi in [-5,5], Amount in [1,10000]
InRange(v) ==
  /\ DOMAIN v = FieldSet
  /\ \A n \in FieldSet :
       IF n = "Time" THEN v[n] >= 0 /\ v[n] <= 100000
       ELSE IF n = "Amount" THEN v[n] >= 1 /\ v[n] <= 10000
       ELSE v[n] >= -5 /\ v[n] <= 5

VecA == [n \in FieldSet |-> IF n = "Amount" THEN 100 ELSE 0]
VecB == [n \in FieldSet |-> IF n = "Time" THEN 100000
                            ELSE IF n = "Amount" THEN 10000 ELSE -5]

\* The transactions the model draws inputs from.
Vectors == {VecA, VecB}

generate_random_transaction == { v \in Vectors : InRange(v) }

\* np.array(list(transaction.dict().values())).reshape(1, -1)
Features(v) == [i \in 1..Len(FeatureNames) |-> v[FeatureNames[i]]]

\* What model.predict_proba(features)[0][1] can do: raise, or return a float.
Probs == {40000, 40004, 75000, 75004}
Raise == [raised |-> TRUE, value |-> 0]
Return(p) == [raised |-> FALSE, value |-> p]
Outcomes == { Return(p) : p \in Probs } \cup {Raise}

VARIABLES model, numpy_ties, collection, origin, clock, loop_pc, loopFailed,
          pc, req, before, resp, result, dash, summary

vars == << model, numpy_ties, collection, origin, clock, loop_pc, loopFailed,
           pc, req, before, resp, result, dash, summary >>

Clients == {"c1"}

\* ---------------------------------------------------------- pure functions

\* round(float(probability), 4): units of 1/100000 to units of 1/10000,
\* round-half-even as Python's round.
Round4(p) ==
  LET q == p \div 10
      r == p % 10
  IN IF r < 5 THEN q
     ELSE IF r > 5 THEN q + 1
     ELSE IF q % 2 = 0 THEN q ELSE q + 1

\* The policy with the boundaries in the upper bucket (>= for >).
RiskBucketInclusive(p) ==
  IF p >= HighThreshold THEN [risk_level |-> "High", decision |-> "Block"]
  ELSE IF p >= MediumThreshold THEN [risk_level |-> "Medium", decision |-> "Review"]
  ELSE [risk_level |-> "Low", decision |-> "Approve"]

\* score_transaction lines 99-107
RiskBucket(p) ==
  IF p > HighThreshold THEN [risk_level |-> "High", decision |-> "Block"]
  ELSE IF p > MediumThreshold THEN [risk_level |-> "Medium", decision |-> "Review"]
  ELSE [risk_level |-> "Low", decision |-> "Approve"]

\* auto_generate_transactions lines 221-229 (the same policy, written twice)
LoopRiskBucket(p) ==
  IF p > HighThreshold THEN [risk_level |-> "High", decision |-> "Block"]
  ELSE IF p > MediumThreshold THEN [risk_level |-> "Medium", decision |-> "Review"]
  ELSE [risk_level |-> "Low", decision |-> "Approve"]

\* np.argsort(importances): the indices in ascending weight order. Equal
\* weights come out in an order the sort fixes; numpy_ties is that order.
ArgSort(w, ties) ==
  LET idx == [i \in 1..Len(w) |-> i]
      Before(a, b) ==
        \/ w[a] < w[b]
        \/ w[a] = w[b] /\ (IF ties = "ascending" THEN a < b ELSE a > b)
  IN SortSeq(idx, Before)

\* The slice taken from the wrong end: np.argsort(importances)[:3]
TopIndicesLightest(w, ties) ==
  LET s == ArgSort(w, ties)
  IN IF Len(s) <= TopN THEN s ELSE SubSeq(s, 1, TopN)

\* np.argsort(importances)[-3:]
TopIndices(w, ties) ==
  LET s == ArgSort(w, ties)
  IN IF Len(s) <= TopN THEN s ELSE SubSeq(s, Len(s) - TopN + 1, Len(s))

\* [feature_names[i] for i in top_indices]
TopFeatures(w, ties) ==
  LET t == TopIndices(w, ties)
  IN [k \in 1..Len(t) |-> FeatureNames[t[k]]]

\* collection.count_documents({field: value})
CountDocuments(field, value) ==
  Cardinality({ i \in 1..Len(collection) : collection[i][field] = value })

\* collection.find({}, {"_id": 0})
Find ==
  [i \in 1..Len(collection) |->
     [k \in (DOMAIN collection[i]) \ {"_id"} |-> collection[i][k]]]

\* round((approved / total) * 100, 2), in units of 1/100 percent, half-even
ApprovalRate(approved, total) ==
  IF total > 0
  THEN LET n == approved * 10000
           q == n \div total
           r2 == 2 * (n % total)
       IN IF r2 < total THEN q
          ELSE IF r2 > total THEN q + 1
          ELSE IF q % 2 = 0 THEN q ELSE q + 1
  ELSE 0

\* ------------------------------------------------------------------- init

\* model.feature_importances_ of the loaded artifact: one weight per field.
DistinctWeights == [i \in 1..Len(FeatureNames) |-> (i * 7) % 31]
TiedWeights == [i \in 1..Len(FeatureNames) |-> i % 4]

Importances == { <<DistinctWeights, "ascending">>,
                 <<TiedWeights, "ascending">>,
                 <<TiedWeights, "descending">> }

FeatureArrays == { Features(v) : v \in Vectors }

NoResponse == [status |-> 0, body |-> << >>]

DashIdle ==
  [pc |-> 0, total |-> 0, high |-> 0, medium |-> 0, low |-> 0,
   approved |-> 0, blocked |-> 0, review |-> 0]

\* The state once the module is imported (model loaded, collection bound)
\* and before the startup event: f is the classifier, wt its importances.
InitWith(f, wt) ==
  /\ model = [predict_proba |-> f, feature_importances_ |-> wt[1]]
  /\ numpy_ties = wt[2]
  /\ collection = << >>
  /\ origin = << >>
  /\ clock = 0
  /\ loop_pc = "notstarted"
  /\ loopFailed = FALSE
  /\ pc = [c \in Clients |-> "idle"]
  /\ req = [c \in Clients |-> << >>]
  /\ before = [c \in Clients |-> 0]
  /\ resp = [c \in Clients |-> NoResponse]
  /\ result = [c \in Clients |-> << >>]
  /\ dash = DashIdle
  /\ summary = << >>

Init == \E f \in [FeatureArrays -> Outcomes], wt \in Importances : InitWith(f, wt)

\* The classifiers the dashboard runs start from: one that puts the two
\* transactions in different buckets, one that fails on a transaction.
DashClassifiers ==
  { [a \in FeatureArrays |-> IF a = Features(VecA) THEN Return(40000) ELSE Return(75004)],
    [a \in FeatureArrays |-> IF a = Features(VecA) THEN Return(75000) ELSE Raise] }

InitDash == \E f \in DashClassifiers : InitWith(f, <<DistinctWeights, "ascending">>)

\* ---------------------------------------------------------------- actions

\* A write that replaces the stored record of the same input (an upsert
\* keyed on the input) instead of adding one.
InsertOneUpsert(doc, by, p) ==
  LET same == { i \in 1..Len(collection) : collection[i].input = doc.input }
  IN IF same = {}
     THEN /\ Len(collection) < MaxStore
          /\ collection' = Append(collection, doc @@ [_id |-> Len(collection) + 1])
          /\ origin' = Append(origin, [by |-> by, p |-> p])
     ELSE \E i \in same :
            /\ collection' = [collection EXCEPT ![i] = doc @@ [_id |-> Len(collection) + 1]]
            /\ origin' = [origin EXCEPT ![i] = [by |-> by, p |-> p]]

\* collection.insert_one(doc): the store assigns the _id.
InsertOne(doc, by, p) ==
  /\ Len(collection) < MaxStore
  /\ collection' = Append(collection, doc @@ [_id |-> Len(collection) + 1])
  /\ origin' = Append(origin, [by |-> by, p |-> p])

\* GET /
Home(c) ==
  /\ pc[c] = "idle"
  /\ pc' = [pc EXCEPT ![c] = "home"]
  /\ resp' = [resp EXCEPT ![c] =
              [status |-> 200,
               body |-> [message |-> "Fraud Risk Intelligence API Running"]]]
  /\ UNCHANGED << model, numpy_ties, collection, origin, clock, loop_pc,
                  loopFailed, req, before, result, dash, summary >>

\* The body score_transaction returns (lines 123-128)
Verdict(p) ==
  [fraud_probability |-> Round4(p),
   risk_level |-> RiskBucket(p).risk_level,
   decision |-> RiskBucket(p).decision,
   top_risk_indicators |-> TopFeatures(model.feature_importances_, numpy_ties)]

\* The document with the probability stored as the classifier gave it.
ScoreDocumentUnrounded(v, p) ==
  [input |-> v,
   fraud_probability |-> p,
   risk_level |-> RiskBucket(p).risk_level,
   decision |-> RiskBucket(p).decision,
   top_risk_indicators |-> TopFeatures(model.feature_importances_, numpy_ties),
   timestamp |-> clock]

\* The document score_transaction inserts (lines 114-121)
ScoreDocument(v, p) ==
  [input |-> v,
   fraud_probability |-> Round4(p),
   risk_level |-> RiskBucket(p).risk_level,
   decision |-> RiskBucket(p).decision,
   top_risk_indicators |-> TopFeatures(model.feature_importances_, numpy_ties),
   timestamp |-> clock]

\* The handler with the insert moved before the classifier call: a request
\* whose scoring fails has already written a record.
ScoreTransactionPersistFirst(c, v) ==
  /\ pc[c] = "idle"
  /\ req' = [req EXCEPT ![c] = <<v>>]
  /\ before' = [before EXCEPT ![c] = Len(collection)]
  /\ LET out == model.predict_proba[Features(v)]
         p == out.value
     IN
       \/ /\ out.raised
          /\ InsertOne(ScoreDocument(v, p), c, p)
          /\ pc' = [pc EXCEPT ![c] = "failed"]
          /\ resp' = [resp EXCEPT ![c] = [status |-> 500, body |-> "ScoringError"]]
       \/ /\ ~out.raised
          /\ pc' = [pc EXCEPT ![c] = "failed"]
          /\ resp' = [resp EXCEPT ![c] = [status |-> 500, body |-> "PersistenceError"]]
          /\ UNCHANGED << collection, origin >>
       \/ /\ ~out.raised
          /\ InsertOne(ScoreDocument(v, p), c, p)
          /\ pc' = [pc EXCEPT ![c] = "responded"]
          /\ resp' = [resp EXCEPT ![c] = [status |-> 200, body |-> Verdict(p)]]
  /\ UNCHANGED << model, numpy_ties, clock, loop_pc, loopFailed, result,
                  dash, summary >>

\* POST /score-transaction
ScoreTransaction(c, v) ==
  /\ pc[c] = "idle"
  /\ req' = [req EXCEPT ![c] = <<v>>]
  /\ before' = [before EXCEPT ![c] = Len(collection)]
  /\ LET out == model.predict_proba[Features(v)]
         p == out.value
     IN
       \/ /\ out.raised
          /\ pc' = [pc EXCEPT ![c] = "failed"]
          /\ resp' = [resp EXCEPT ![c] = [status |-> 500, body |-> "ScoringError"]]
          /\ UNCHANGED << collection, origin >>
       \/ /\ ~out.raised
          /\ pc' = [pc EXCEPT ![c] = "failed"]
          /\ resp' = [resp EXCEPT ![c] = [status |-> 500, body |-> "PersistenceError"]]
          /\ UNCHANGED << collection, origin >>
       \/ /\ ~out.raised
          /\ InsertOne(ScoreDocument(v, p), c, p)
          /\ pc' = [pc EXCEPT ![c] = "responded"]
          /\ resp' = [resp EXCEPT ![c] = [status |-> 200, body |-> Verdict(p)]]
  /\ UNCHANGED << model, numpy_ties, clock, loop_pc, loopFailed, result,
                  dash, summary >>

\* GET /transactions
GetTransactions(c) ==
  /\ pc[c] \in {"idle", "responded"}
  /\ pc' = [pc EXCEPT ![c] = "got"]
  /\ result' = [result EXCEPT ![c] = Find]
  /\ UNCHANGED << model, numpy_ties, collection, origin, clock, loop_pc,
                  loopFailed, req, before, resp, dash, summary >>

\* The client has its answer and may send the next request.
ClientDone(c) ==
  /\ pc[c] \in {"failed", "got", "home", "responded"}
  /\ pc' = [pc EXCEPT ![c] = "idle"]
  /\ req' = [req EXCEPT ![c] = << >>]
  /\ before' = [before EXCEPT ![c] = 0]
  /\ resp' = [resp EXCEPT ![c] = NoResponse]
  /\ result' = [result EXCEPT ![c] = << >>]
  /\ UNCHANGED << model, numpy_ties, collection, origin, clock, loop_pc,
                  loopFailed, dash, summary >>

\* @app.on_event("startup"): asyncio.create_task(auto_generate_transactions())
Startup ==
  /\ loop_pc = "notstarted"
  /\ loop_pc' = "running"
  /\ UNCHANGED << model, numpy_ties, collection, origin, clock, loopFailed,
                  pc, req, before, resp, result, dash, summary >>

\* The loop's document with the indicators the API path stores.
LoopDocumentWithIndicators(v, p) ==
  [input |-> v,
   fraud_probability |-> Round4(p),
   risk_level |-> LoopRiskBucket(p).risk_level,
   decision |-> LoopRiskBucket(p).decision,
   top_risk_indicators |-> TopFeatures(model.feature_importances_, numpy_ties),
   timestamp |-> clock]

\* The document the loop inserts (lines 231-237)
LoopDocument(v, p) ==
  [input |-> v,
   fraud_probability |-> Round4(p),
   risk_level |-> LoopRiskBucket(p).risk_level,
   decision |-> LoopRiskBucket(p).decision,
   timestamp |-> clock]

\* One pass of the body of `while True` in auto_generate_transactions, up to
\* the await. Nothing catches an exception: it ends the task.
LoopIteration(v) ==
  /\ loop_pc = "running"
  /\ LET out == model.predict_proba[Features(v)]
         p == out.value
     IN
       \/ /\ out.raised
          /\ loop_pc' = "dead"
          /\ loopFailed' = TRUE
          /\ UNCHANGED << collection, origin >>
       \/ /\ ~out.raised
          /\ loop_pc' = "dead"
          /\ loopFailed' = TRUE
          /\ UNCHANGED << collection, origin >>
       \/ /\ ~out.raised
          /\ InsertOne(LoopDocument(v, p), "loop", p)
          /\ loop_pc' = "sleeping"
          /\ UNCHANGED loopFailed
  /\ UNCHANGED << model, numpy_ties, clock, pc, req, before, resp, result,
                  dash, summary >>

\* await asyncio.sleep(5) returns: datetime.utcnow() has moved on by then
LoopWake ==
  /\ loop_pc = "sleeping"
  /\ loop_pc' = "running"
  /\ clock' = clock + SleepSeconds
  /\ UNCHANGED << model, numpy_ties, collection, origin, loopFailed,
                  pc, req, before, resp, result, dash, summary >>

\* GET /dashboard: seven count queries, each its own read of the collection.
DashStep(k, field, value) ==
  /\ dash.pc = k
  /\ dash' = [dash EXCEPT !.pc = k + 1,
                          ![field] = IF value = None THEN Len(collection)
                                     ELSE CountDocuments(
                                            IF field \in {"high", "medium", "low"}
                                            THEN "risk_level" ELSE "decision", value)]
  /\ UNCHANGED << model, numpy_ties, collection, origin, clock, loop_pc,
                  loopFailed, pc, req, before, resp, result >>

DashTotal == DashStep(0, "total", None) /\ summary' = << >>
DashHigh == DashStep(1, "high", "High") /\ UNCHANGED summary
DashMedium == DashStep(2, "medium", "Medium") /\ UNCHANGED summary
DashLow == DashStep(3, "low", "Low") /\ UNCHANGED summary
DashApproved == DashStep(4, "approved", "Approve") /\ UNCHANGED summary
DashBlocked == DashStep(5, "blocked", "Block") /\ UNCHANGED summary

DashReview ==
  /\ dash.pc = 6
  /\ LET review == CountDocuments("decision", "Review") IN
       summary' = <<
         [total_transactions |-> dash.total,
          risk_distribution |->
            [high |-> dash.high, medium |-> dash.medium, low |-> dash.low],
          decision_distribution |->
            [approved |-> dash.approved, blocked |-> dash.blocked, review |-> review],
          approval_rate_percent |-> ApprovalRate(dash.approved, dash.total)] >>
  /\ dash' = DashIdle
  /\ UNCHANGED << model, numpy_ties, collection, origin, clock, loop_pc,
                  loopFailed, pc, req, before, resp, result >>

dashboard_summary ==
  \/ DashTotal
  \/ DashHigh
  \/ DashMedium
  \/ DashLow
  \/ DashApproved
  \/ DashBlocked
  \/ DashReview

\* The API and the background task.
Next ==
  \/ Startup
  \/ \E v \in generate_random_transaction : LoopIteration(v)
  \/ LoopWake
  \/ \E c \in Clients : Home(c)
  \/ \E c \in Clients, v \in Vectors : ScoreTransaction(c, v)
  \/ \E c \in Clients : GetTransactions(c)
  \/ \E c \in Clients : ClientDone(c)

Spec == Init /\ [][Next]_vars

\* The same, with a dashboard request in flight.
NextDash ==
  \/ Startup
  \/ \E v \in generate_random_transaction : LoopIteration(v)
  \/ LoopWake
  \/ \E c \in Clients : Home(c)
  \/ \E c \in Clients, v \in Vectors : ScoreTransaction(c, v)
  \/ \E c \in Clients : GetTransactions(c)
  \/ \E c \in Clients : ClientDone(c)
  \/ dashboard_summary

SpecDash == InitDash /\ [][NextDash]_vars

\* ======================================================== the properties

Stored == 1..Len(collection)

ApiRecords == { i \in Stored : origin[i].by \in Clients }
LoopRecords == { i \in Stored : origin[i].by = "loop" }

\* A client holding the 200 response of its score_transaction request.
Scored(c) == pc[c] = "responded" /\ resp[c].status = 200

\* A client that called get_transactions after its scored submission.
RoundTripDone(c) == pc[c] = "got" /\ Len(req[c]) = 1 /\ resp[c].status = 200

\* The policy as the specification words it, on a probability in 1/100000.
PolicyHolds(p, level, decision) ==
  /\ (p > 75000 => level = "High" /\ decision = "Block")
  /\ (p > 40000 /\ p <= 75000 => level = "Medium" /\ decision = "Review")
  /\ (p <= 40000 => level = "Low" /\ decision = "Approve")

\* C1: every probability the classifier returned, on the API path and in the
\* background loop, is bucketed p > 0.75 -> High/Block, 0.40 < p <= 0.75 ->
\* Medium/Review, p <= 0.40 -> Low/Approve; 0.75 and 0.40 fall in the lower bucket.
C1_BucketPolicy ==
  /\ \A i \in Stored :
       PolicyHolds(origin[i].p, collection[i].risk_level, collection[i].decision)
  /\ \A c \in Clients :
       Scored(c) =>
         PolicyHolds(origin[before[c] + 1].p, resp[c].body.risk_level,
                     resp[c].body.decision)

\* Both boundary values have been scored, one on each path.
C1_Witness ==
  \E i \in ApiRecords, j \in LoopRecords :
    /\ {origin[i].p, origin[j].p} = {75000, 40000}
    /\ {collection[i].risk_level, collection[j].risk_level} = {"Medium", "Low"}

\* C2: every summary dashboard_summary returns has high + medium + low ==
\* total_transactions == approved + blocked + review, whatever insertions
\* interleave with its seven count queries.
C2_CountsAgree ==
  Len(summary) = 1 =>
    LET s == summary[1] IN
      /\ s.risk_distribution.high + s.risk_distribution.medium
           + s.risk_distribution.low = s.total_transactions
      /\ s.decision_distribution.approved + s.decision_distribution.blocked
           + s.decision_distribution.review = s.total_transactions

\* C3: an iteration of the background loop that failed leaves the loop
\* running, so that a later iteration still runs.
C3_LoopSurvivesFailure ==
  loopFailed => loop_pc \in {"running", "sleeping"}

\* C4 as written: after score_transaction and then get_transactions, the
\* result holds exactly one record that was not there before the submission,
\* and it is the submitted one with the verdict of the response.
C4_ExactlyOneNewRecord ==
  \A c \in Clients :
    RoundTripDone(c) =>
      /\ Len(result[c]) = before[c] + 1
      /\ result[c][before[c] + 1].input = req[c][1]

\* C4 as amended: the result holds at least one record that was not there
\* before the submission; exactly one of the new records was inserted by this
\* submission, its input is the submitted vector and its fraud_probability,
\* risk_level, decision and top_risk_indicators are those of the response;
\* every other new record was inserted by the background loop in between.
C4_RoundTrip ==
  \A c \in Clients :
    RoundTripDone(c) =>
      LET new == (before[c] + 1)..Len(result[c])
          mine == { i \in new : origin[i].by = c }
      IN /\ Cardinality(mine) = 1
         /\ \A i \in mine :
              /\ DOMAIN result[c][i] =
                   {"input", "timestamp"} \cup DOMAIN resp[c].body
              /\ result[c][i].input = req[c][1]
              /\ \A k \in DOMAIN resp[c].body : result[c][i][k] = resp[c].body[k]
         /\ \A i \in new \ mine : origin[i].by = "loop"

\* The round trip with a record of the background loop inserted in between.
C4_Witness ==
  \E c \in Clients :
    /\ RoundTripDone(c)
    /\ Len(result[c]) = before[c] + 2
    /\ \E i \in 1..Len(result[c]) : "top_risk_indicators" \notin DOMAIN result[c][i]

\* C5: a score_transaction request whose classifier call fails ends with an
\* error and leaves the store as it was.
C5_NoRecordOnScoringError ==
  [][ \A c \in Clients :
        (pc[c] = "idle" /\ pc'[c] = "failed")
          => (/\ resp'[c].status = 500
              /\ collection' = collection) ]_vars

\* A request failed in the classifier while the store held a record.
C5_Witness ==
  \E c \in Clients :
    /\ pc[c] = "failed"
    /\ resp[c].body = "ScoringError"
    /\ Len(collection) > 0

NameIndex(n) == CHOOSE i \in 1..Len(FeatureNames) : FeatureNames[i] = n

Weight(n) == model.feature_importances_[NameIndex(n)]

\* top is the three heaviest fields, lightest first.
IsTopThree(top) ==
  /\ Len(top) = 3
  /\ \A k \in 1..3 : top[k] \in FieldSet
  /\ Cardinality({ top[k] : k \in 1..3 }) = 3
  /\ Weight(top[1]) <= Weight(top[2])
  /\ Weight(top[2]) <= Weight(top[3])
  /\ \A n \in FieldSet \ { top[k] : k \in 1..3 } : Weight(n) <= Weight(top[1])

\* C7: top_risk_indicators of every score_transaction request has length 3,
\* holds only names of the 30 fields, lists the 3 fields of largest importance
\* in ascending weight order, and is the same for requests with different
\* FeatureVectors.
C7_TopIndicators ==
  /\ \A c \in Clients : Scored(c) => IsTopThree(resp[c].body.top_risk_indicators)
  /\ \A i \in ApiRecords : IsTopThree(collection[i].top_risk_indicators)
  /\ \A i, j \in ApiRecords :
       collection[i].top_risk_indicators = collection[j].top_risk_indicators
  /\ \A c \in Clients, i \in ApiRecords :
       Scored(c) =>
         resp[c].body.top_risk_indicators = collection[i].top_risk_indicators

\* Two requests with different FeatureVectors were answered, under
\* importances with equal weights at the cut.
C7_Witness ==
  /\ model.feature_importances_ = TiedWeights
  /\ \E c \in Clients : Scored(c)
  /\ \E i, j \in ApiRecords : collection[i].input # collection[j].input

\* C8: risk_level and decision are a function of the fraud_probability that
\* is returned and stored (rounded to 4 decimals): records with equal
\* fraud_probability have equal risk_level and equal decision.
C8_LevelFromStoredProbability ==
  \A i, j \in Stored :
    collection[i].fraud_probability = collection[j].fraud_probability
      => /\ collection[i].risk_level = collection[j].risk_level
         /\ collection[i].decision = collection[j].decision

IsPrefix(s, t) == Len(s) <= Len(t) /\ SubSeq(t, 1, Len(s)) = s

C10_IndicatorsOnlyFromApi ==
  /\ \A i \in Stored :
       ("top_risk_indicators" \in DOMAIN collection[i]) <=> (i \in ApiRecords)
  /\ \A i \in LoopRecords :
       DOMAIN collection[i] =
         {"_id", "input", "fraud_probability", "risk_level", "decision", "timestamp"}

\* The store holds a record of each path.
C10_Witness == ApiRecords # {} /\ LoopRecords # {}

\* C6: approval_rate_percent is 0 when the total is 0, else
\* round(approved / total * 100, 2) with approved the number of records with
\* decision Approve, and so lies in [0, 100] (here in 1/100 percent).
C6_ApprovalRate ==
  Len(summary) = 1 =>
    LET s == summary[1]
        rate == s.approval_rate_percent
        total == s.total_transactions
        approved == s.decision_distribution.approved
        diff == rate * total - approved * 10000
    IN /\ (total = 0 => rate = 0)
       /\ (total > 0 => 2 * diff <= total /\ 2 * diff >= 0 - total)
       /\ rate >= 0
       /\ rate <= 10000

====
